---- MODULE Spec2Model ----
(***************************************************************************)
(* A model of src/github_utils.py and src/generator.py: the Backoff        *)
(* Publisher (post_with_backoff), the Repository Synchronizer              *)
(* (create_repo_and_push, update_repo_and_push, is_org), the Pages         *)
(* Activator (deploy_github_pages, wait_for_pages_ready) and the Content   *)
(* Producer (generate_project_files, get_repo_files), with the remote      *)
(* repository service, the hosted-pages service, the generation service    *)
(* and the evaluation endpoint as their environment.                       *)
(***************************************************************************)
EXTENDS Integers, Sequences, FiniteSets, TLC

VARIABLES
    \* ---- post_with_backoff (src/github_utils.py:224-251)
    url,            \* argument url
    headers,        \* argument headers ("None" until defaulted)
    max_attempts,   \* argument max_attempts
    attempt,        \* local attempt
    delay,          \* local delay
    pb_pc,          \* position in post_with_backoff
    pb_result,      \* "none" until the call returns, then "True" / "False"
    pb_log,         \* the POSTs and sleeps the call has issued, in order
    \* ---- create_repo_and_push / update_repo_and_push (lines 10-143)
    fn,             \* which of the two functions the current call runs
    token,          \* argument token ("None" for None)
    owner,          \* argument owner ("" for None)
    files,          \* argument files: the FileSet, in mapping order
    pc,             \* position in the current call
    user,           \* create: login of the account the repository is created under
    owners_to_try,  \* update: the candidate owners
    cand,           \* update: index of the candidate of the current iteration
    repo,           \* owner of the repository in use ("" for None)
    fidx,           \* index in files of the file of the current iteration
    last_commit_sha,
    calls,          \* the remote calls the current call has issued, in order
    raised,         \* the error the call raised (kind "none" while it has not)
    result,         \* the dict the call returned (ok = FALSE while it has not)
    call_no,        \* 1 for the first call, 2 for a re-invocation, ...
    \* ---- the environment of those calls
    env_owner,      \* os.environ GITHUB_OWNER ("" when unset)
    token_login,    \* login of the account the token belongs to
    repos,          \* owners under which a repository named repo_name exists
    remote,         \* remote[o][p]: the file at path p of o's repository
    head,           \* head[o]: sha of the latest commit of o's repository, 0 if none
    next_sha,       \* the sha the next commit gets
    faults,         \* remote calls that have failed for a transient reason
    writers,        \* whether another client writes to the repository meanwhile
    before,         \* remote, as it was when the current call started
    prev,           \* how the call before the current one ended
    \* ---- deploy_github_pages (lines 182-204)
    round_num,      \* argument round_num (also of generate_project_files)
    dp_pc,          \* position in deploy_github_pages
    dp_log,         \* the requests issued and the log lines written, in order
    resp,           \* local resp: what requests.post gave
    dp_ret,         \* what the call returned ("none" until it does)
    \* ---- wait_for_pages_ready (lines 207-221)
    timeout_seconds, \* argument timeout_seconds
    now,            \* time.time(), in seconds
    start,          \* local start
    wp_pc,          \* position in wait_for_pages_ready
    wp_result,      \* "none" until the call returns, then "True" / "False"
    wp_log,         \* the polls and sleeps of the call, in order
    \* ---- generate_project_files (src/generator.py:40-155)
    USE_OPENAI,     \* module constant USE_OPENAI
    snapshot,       \* which of index.html and README.md the repository holds
    gen_pc,         \* position in generate_project_files
    gen_files       \* local files: the mapping built and returned

pbVars == <<url, headers, max_attempts, attempt, delay, pb_pc, pb_result, pb_log>>

argVars == <<fn, token, owner, files, env_owner, token_login, writers>>
localVars == <<pc, user, owners_to_try, cand, repo, fidx, last_commit_sha, calls,
               raised, result>>
remoteVars == <<repos, remote, head, next_sha>>
syncVars == <<argVars, localVars, remoteVars, faults, call_no, before, prev>>

pagesVars == <<round_num, dp_pc, dp_log, resp, dp_ret,
               timeout_seconds, now, start, wp_pc, wp_result, wp_log>>
genVars == <<USE_OPENAI, snapshot, gen_pc, gen_files>>

vars == <<pbVars, syncVars, pagesVars, genVars>>

-----------------------------------------------------------------------------
(* Bounds of the model.                                                    *)

\* largest max_attempts argument tried (the source's default is 6)
MaxAttemptsArg == 4

\* largest number of files in a FileSet
MaxFiles == 3

\* most remote calls of a run that fail for a transient reason
MaxFaults == 2

\* most synchronization calls made one after the other
MaxCalls == 2

-----------------------------------------------------------------------------
(* Values shared by the two components.                                    *)

\* Python's None for a commit sha (line 29, line 110), and the "" of lines 58, 141
NoneSha == 0
EmptySha == -1

NoError == [kind |-> "none", op |-> "", path |-> <<>>, owners |-> <<>>]
NoResult == [ok |-> FALSE, repo_url |-> "", commit_sha |-> NoneSha, owner |-> ""]

NoCall == [fn |-> "none", pc |-> "none", repo |-> ""]

\* a file of a remote repository: absent, or present with its bytes
Absent == [present |-> FALSE, data |-> <<>>]
Stored(bytes) == [present |-> TRUE, data |-> bytes]

\* the paths a FileSet is drawn from, in the order the mapping lists them; a
\* path is the sequence of its segments and separators
AllPaths == << <<"index.html">>, <<"README.md">>, <<"LICENSE">>,
               <<"css", "/", "style.css">>, <<"script.js">> >>
PathNames == { AllPaths[k] : k \in 1..Len(AllPaths) }

EmptyRepo == [p \in PathNames |-> Absent]

Owners == {"A", "B", "C"}

\* the state of the synchronizer's variables while post_with_backoff is studied
SyncIdle ==
    /\ fn = "none" /\ token = "" /\ owner = "" /\ files = <<>>
    /\ env_owner = "" /\ token_login = "" /\ writers = FALSE
    /\ pc = "idle" /\ user = "" /\ owners_to_try = <<>> /\ cand = 0 /\ repo = ""
    /\ fidx = 0 /\ last_commit_sha = NoneSha /\ calls = <<>>
    /\ raised = NoError /\ result = NoResult
    /\ call_no = 0 /\ repos = {} /\ remote = [o \in Owners |-> EmptyRepo]
    /\ head = [o \in Owners |-> 0] /\ next_sha = 1 /\ faults = 0
    /\ before = [o \in Owners |-> EmptyRepo]
    /\ prev = NoCall

\* the state of the publisher's variables while the synchronizer is studied
PublishIdle ==
    /\ url = "" /\ headers = "None" /\ max_attempts = 0 /\ attempt = 0
    /\ delay = 0 /\ pb_pc = "idle" /\ pb_result = "none" /\ pb_log = <<>>

\* no response yet
NoResp == [kind |-> "none", status |-> 0, body |-> ""]

\* the state of the Pages Activator's variables while another component is
\* studied
PagesIdle ==
    /\ round_num = 0 /\ dp_pc = "idle" /\ dp_log = <<>> /\ resp = NoResp
    /\ dp_ret = "none"
    /\ timeout_seconds = 0 /\ now = 0 /\ start = 0 /\ wp_pc = "idle"
    /\ wp_result = "none" /\ wp_log = <<>>

\* the names generate_project_files can put in its mapping: the three
\* required files and one more
GenKeys == {"index.html", "README.md", "LICENSE", "script.js"}

\* the value of a name that is not in the mapping
NotIn == "<no key>"

\* the empty dict of src/generator.py line 45
EmptyDict == [k \in GenKeys |-> NotIn]

\* the state of the Content Producer's variables while another component is
\* studied
GenIdle ==
    /\ USE_OPENAI = FALSE /\ snapshot = {} /\ gen_pc = "idle"
    /\ gen_files = EmptyDict

-----------------------------------------------------------------------------
(* post_with_backoff                                                       *)

\* the sentinel of line 233
SentinelUrl == "TESTING"

\* url arguments: the sentinel, an endpoint, and the literal of line 244
Urls == {SentinelUrl, "http://eval", "''"}

HeaderArgs == {"None", "custom"}

DefaultHeaders == "Content-Type: application/json"

\* what requests.post can do at line 239: answer with a status, or raise
PostOutcomes ==
    { [kind |-> "resp", status |-> s] : s \in {200, 201, 500} }
        \cup { [kind |-> "exc", status |-> 0] }

PostEvent(o) == [op |-> "post", kind |-> o.kind, status |-> o.status, secs |-> 0,
                 hdr |-> headers]

SleepEvent(d) == [op |-> "sleep", kind |-> "none", status |-> 0, secs |-> d,
                  hdr |-> headers]

\* a faulty variant of IsSuccess: any 2xx status counts as success
IsSuccess_Any2xx(o) == o.kind = "resp" /\ o.status \in 200..299

\* line 240: success is status 200 exactly
IsSuccess(o) == o.kind = "resp" /\ o.status = 200

InitPublish ==
    /\ SyncIdle /\ PagesIdle /\ GenIdle
    /\ url \in Urls
    /\ headers \in HeaderArgs
    /\ max_attempts \in (-1)..MaxAttemptsArg
    /\ attempt = 0
    /\ delay = 0
    /\ pb_pc = "start"
    /\ pb_result = "none"
    /\ pb_log = <<>>

\* a faulty variant of PB_Enter: the sentinel test is missing
PB_Enter_NoSentinel ==
    /\ pb_pc = "start"
    /\ headers' = IF headers = "None" THEN DefaultHeaders ELSE headers
    /\ attempt' = 0
    /\ delay' = 1
    /\ pb_pc' = "loop"
    /\ UNCHANGED <<url, max_attempts, pb_log, pb_result>>
    /\ UNCHANGED <<syncVars, pagesVars, genVars>>

\* lines 229-235: default the headers, set attempt and delay, test the sentinel
PB_Enter ==
    /\ pb_pc = "start"
    /\ headers' = IF headers = "None" THEN DefaultHeaders ELSE headers
    /\ attempt' = 0
    /\ delay' = 1
    /\ IF url = SentinelUrl
         THEN pb_pc' = "done" /\ pb_result' = "True"
         ELSE pb_pc' = "loop" /\ pb_result' = pb_result
    /\ UNCHANGED <<url, max_attempts, pb_log>>
    /\ UNCHANGED <<syncVars, pagesVars, genVars>>

\* lines 236-237 and 251: the loop test; attempt += 1, or fall out and return False
PB_Loop ==
    /\ pb_pc = "loop"
    /\ IF attempt < max_attempts
         THEN attempt' = attempt + 1 /\ pb_pc' = "post" /\ pb_result' = pb_result
         ELSE attempt' = attempt /\ pb_pc' = "done" /\ pb_result' = "False"
    /\ UNCHANGED <<url, headers, max_attempts, delay, pb_log>>
    /\ UNCHANGED <<syncVars, pagesVars, genVars>>

\* a faulty variant of HandlePost: the exception of the POST is not caught
HandlePost_Escapes(o) ==
    /\ pb_log' = Append(pb_log, PostEvent(o))
    /\ IF IsSuccess(o)
         THEN pb_pc' = "done" /\ pb_result' = "True"
         ELSE IF o.kind = "exc"
                THEN pb_pc' = "raised" /\ pb_result' = pb_result
                ELSE pb_pc' = "sleep" /\ pb_result' = pb_result

\* a faulty variant of HandlePost: the last failed attempt returns False at
\* once, with no sleep after it
HandlePost_NoFinalSleep(o) ==
    /\ pb_log' = Append(pb_log, PostEvent(o))
    /\ IF IsSuccess(o)
         THEN pb_pc' = "done" /\ pb_result' = "True"
         ELSE IF attempt >= max_attempts
                THEN pb_pc' = "done" /\ pb_result' = "False"
                ELSE pb_pc' = "sleep" /\ pb_result' = pb_result

\* lines 238-247 for one outcome of the POST: return True on 200; a non-200
\* response falls through and an exception is caught, both reach the sleep
HandlePost(o) ==
    /\ pb_log' = Append(pb_log, PostEvent(o))
    /\ IF IsSuccess(o)
         THEN pb_pc' = "done" /\ pb_result' = "True"
         ELSE pb_pc' = "sleep" /\ pb_result' = pb_result

PB_Post ==
    /\ pb_pc = "post"
    /\ \E o \in PostOutcomes : HandlePost(o)
    /\ UNCHANGED <<url, headers, max_attempts, attempt, delay>>
    /\ UNCHANGED <<syncVars, pagesVars, genVars>>

\* a faulty variant of PB_Sleep: the delay grows by one instead of doubling
PB_Sleep_Linear ==
    /\ pb_pc = "sleep"
    /\ pb_log' = Append(pb_log, SleepEvent(delay))
    /\ delay' = delay + 1
    /\ pb_pc' = "loop"
    /\ UNCHANGED <<url, headers, max_attempts, attempt, pb_result>>
    /\ UNCHANGED <<syncVars, pagesVars, genVars>>

\* lines 249-250: time.sleep(delay); delay *= 2
PB_Sleep ==
    /\ pb_pc = "sleep"
    /\ pb_log' = Append(pb_log, SleepEvent(delay))
    /\ delay' = delay * 2
    /\ pb_pc' = "loop"
    /\ UNCHANGED <<url, headers, max_attempts, attempt, pb_result>>
    /\ UNCHANGED <<syncVars, pagesVars, genVars>>

NextPublish == PB_Enter \/ PB_Loop \/ PB_Post \/ PB_Sleep

SpecPublish == InitPublish /\ [][NextPublish]_vars

-----------------------------------------------------------------------------
(* File contents and paths.                                                *)

Str(d) == [kind |-> "str", data |-> d]
Bytes(d) == [kind |-> "bytes", data |-> d]

RECURSIVE Utf8Encode(_)
\* str.encode("utf-8") for code points below 2048
Utf8Encode(cps) ==
    IF cps = <<>> THEN <<>>
    ELSE LET c == Head(cps)
         IN (IF c < 128 THEN <<c>> ELSE <<192 + (c \div 64), 128 + (c % 64)>>)
                \o Utf8Encode(Tail(cps))

RECURSIVE Utf8DecodeIgnore(_)
\* line 116: bytes.decode("utf-8", errors="ignore") for one- and two-byte
\* sequences: a byte that starts no valid sequence is dropped
Utf8DecodeIgnore(bs) ==
    IF bs = <<>> THEN <<>>
    ELSE LET b == Head(bs)
         IN IF b < 128
              THEN <<b>> \o Utf8DecodeIgnore(Tail(bs))
              ELSE IF /\ b \in 194..223
                      /\ Len(bs) >= 2
                      /\ bs[2] \in 128..191
                     THEN <<(b - 192) * 64 + (bs[2] - 128)>>
                              \o Utf8DecodeIgnore(Tail(Tail(bs)))
                     ELSE Utf8DecodeIgnore(Tail(bs))

\* a faulty variant of Normalize: bytes are passed on undecoded
Normalize_Keep(content) == content

\* lines 115-116: bytes are decoded to text, text is left alone
Normalize(content) ==
    IF content.kind = "bytes" THEN Str(Utf8DecodeIgnore(content.data)) ELSE content

\* the bytes the remote stores for a content handed to create_file or
\* update_file (lines 35, 120, 123): text is sent UTF-8 encoded, bytes as they are
Wire(content) ==
    IF content.kind = "str" THEN Utf8Encode(content.data) ELSE content.data

RECURSIVE LStrip(_)
\* lines 33, 114: path.lstrip("/")
LStrip(path) ==
    IF path # <<>> /\ Head(path) = "/" THEN LStrip(Tail(path)) ELSE path

\* contents a file is given: text with a two-byte character, bytes with an
\* undecodable byte, bytes with a truncated sequence, valid UTF-8 bytes
Contents == << Str(<<104, 233>>), Bytes(<<195, 169, 255>>),
               Bytes(<<195, 104>>), Bytes(<<104, 195, 169>>) >>

\* the FileSet of n files whose k-th file holds content number c + k - 1
FileSet(n, c) ==
    [k \in 1..n |-> [path |-> AllPaths[k],
                     content |-> Contents[((c + k - 2) % Len(Contents)) + 1]]]

\* bytes of a file that is on the remote before the first call
OldData == <<111, 108, 100>>

-----------------------------------------------------------------------------
(* The remote repository service.                                          *)

\* a remote call as the log keeps it; ref is the reference that update_file
\* carries as its precondition, empty for the other calls
CallRec(op, arg, ok) == [op |-> op, arg |-> arg, ok |-> ok, ref |-> <<>>]

\* the reference (blob sha) of a stored file: a digest of its length and bytes
BlobRef(bytes) == <<Len(bytes)>> \o bytes

\* what another client can do to a file between two calls of this one
OtherWrites == {"none", "modify", "delete"}

\* the bytes another client stores
OtherData == <<111, 116, 104>>

\* the outcomes a remote call can have: it fails when the remote has to refuse
\* it, and may fail for a transient reason while the budget of faults lasts
Outcomes(genuine, left) ==
    IF ~genuine THEN {FALSE} ELSE IF left > 0 THEN {TRUE, FALSE} ELSE {TRUE}

FaultOf(genuine, ok) == IF genuine /\ ~ok THEN 1 ELSE 0

\* the shapes of the value create_file / update_file return: dict-like or
\* not, with a commit that has a sha, no commit, or a commit whose sha is None
ResShapes == { [dictlike |-> TRUE, commit |-> "sha"],
               [dictlike |-> FALSE, commit |-> "sha"],
               [dictlike |-> TRUE, commit |-> "none"],
               [dictlike |-> FALSE, commit |-> "sha_none"] }

\* the exception of a failed remote call on path p, as the library raises it:
\* its message may or may not name the path
RemoteErrors(op, p) ==
    { [kind |-> "Remote", op |-> op, path |-> q, owners |-> <<>>] : q \in {p, <<>>} }

\* a write that the remote accepts: new bytes at p and a new head commit
WriteFile(o, p, bytes) ==
    /\ remote' = [remote EXCEPT ![o][p] = Stored(bytes)]
    /\ head' = [head EXCEPT ![o] = next_sha]
    /\ next_sha' = next_sha + 1
    /\ repos' = repos

-----------------------------------------------------------------------------
(* create_repo_and_push and update_repo_and_push                           *)

\* the token arguments tried: None, the empty string, and a token
Tokens == {"None", "", "ghp_token"}

\* a variant of Truthy that tests for None only
Truthy_NoneOnly(tok) == tok # "None"

\* Python's truth value of a token argument, as `not token` takes it
Truthy(tok) == tok \notin {"None", ""}

InitLocals ==
    /\ pc = "start" /\ user = "" /\ owners_to_try = <<>> /\ cand = 0 /\ repo = ""
    /\ fidx = 0 /\ last_commit_sha = NoneSha /\ calls = <<>>
    /\ raised = NoError /\ result = NoResult

\* inputs that vary the owners: every owner argument, environment default,
\* token login and placement of the repository, with one file to publish
InitOwners ==
    /\ owner \in Owners \cup {""}
    /\ env_owner \in Owners \cup {""}
    /\ token_login \in Owners
    /\ repos \in SUBSET Owners
    /\ files = FileSet(1, 1)
    /\ remote = [o \in Owners |-> EmptyRepo]

\* inputs that vary the files: every FileSet, on a repository that already
\* holds any subset of its paths, or on none
InitFiles ==
    /\ owner = "A" /\ env_owner = "" /\ token_login = "A"
    /\ repos \in {{}, {"A"}}
    /\ \E n \in 0..MaxFiles, c \in 1..Len(Contents) : files = FileSet(n, c)
    /\ \E existing \in SUBSET { AllPaths[k] : k \in 1..MaxFiles } :
          /\ (repos = {}) => (existing = {})
          /\ remote = [o \in Owners |->
                         [p \in PathNames |->
                            IF o \in repos /\ p \in existing
                              THEN Stored(OldData) ELSE Absent]]

\* the rest of the state when the first call starts
InitRun ==
    /\ head = [o \in Owners |->
                 IF \E p \in PathNames : remote[o][p].present THEN 1 ELSE 0]
    /\ next_sha = 2
    /\ faults = 0
    /\ call_no = 1
    /\ before = remote
    /\ prev = NoCall

\* the calls of a client that is alone on the repository
InitSync ==
    /\ PublishIdle /\ PagesIdle /\ GenIdle
    /\ fn \in {"create", "update"}
    /\ token \in Tokens
    /\ InitLocals
    /\ InitOwners \/ InitFiles
    /\ writers = FALSE
    /\ InitRun

\* the calls of a client that shares the repository with another writer
InitConcurrent ==
    /\ PublishIdle /\ PagesIdle /\ GenIdle
    /\ fn \in {"create", "update"}
    /\ token \in Tokens
    /\ InitLocals
    /\ InitFiles
    /\ writers = TRUE
    /\ InitRun

Raise(e) == raised' = e /\ pc' = "raised"

\* lines 16-19 and 77-80: the token is required; Github(token) calls nothing
S_Enter ==
    /\ pc = "start"
    /\ IF ~Truthy(token)
         THEN Raise([kind |-> "Precondition", op |-> "", path |-> <<>>, owners |-> <<>>])
         ELSE raised' = raised /\ pc' = (IF fn = "create" THEN "c_user" ELSE "u_owners")
    /\ UNCHANGED <<argVars, user, owners_to_try, cand, repo, fidx, last_commit_sha,
                   calls, result, remoteVars, faults, call_no, before, prev>>
    /\ UNCHANGED <<pbVars, pagesVars, genVars>>

\* lines 20-23: the account to create under; with an owner argument, is_org
\* probes it and the organization or the user is fetched
C_User ==
    /\ pc = "c_user"
    /\ IF owner = ""
         THEN /\ user' = token_login /\ pc' = "c_repo"
              /\ UNCHANGED <<calls, raised, faults>>
         ELSE \E isorg \in BOOLEAN, ok \in Outcomes(TRUE, MaxFaults - faults) :
                LET getop == IF isorg THEN "get_organization" ELSE "get_user"
                IN /\ calls' = calls \o <<CallRec("is_org", <<owner>>, isorg),
                                          CallRec(getop, <<owner>>, ok)>>
                   /\ faults' = faults + FaultOf(TRUE, ok)
                   /\ IF ok
                        THEN user' = owner /\ pc' = "c_repo" /\ raised' = raised
                        ELSE /\ user' = user
                             /\ \E e \in RemoteErrors(getop, <<>>) : Raise(e)
    /\ UNCHANGED <<argVars, owners_to_try, cand, repo, fidx, last_commit_sha,
                   result, remoteVars, call_no, before, prev>>
    /\ UNCHANGED <<pbVars, pagesVars, genVars>>

\* lines 26-29: create the repository; the remote refuses a name that exists
C_Repo ==
    /\ pc = "c_repo"
    /\ \E ok \in Outcomes(user \notin repos, MaxFaults - faults) :
          /\ calls' = Append(calls, CallRec("create_repo", <<user>>, ok))
          /\ faults' = faults + FaultOf(user \notin repos, ok)
          /\ IF ok
               THEN /\ repos' = repos \cup {user}
                    /\ remote' = [remote EXCEPT ![user] = EmptyRepo]
                    /\ head' = [head EXCEPT ![user] = 0]
                    /\ repo' = user /\ fidx' = 1 /\ last_commit_sha' = NoneSha
                    /\ pc' = "files" /\ raised' = raised
               ELSE /\ UNCHANGED <<repos, remote, head, repo, fidx, last_commit_sha>>
                    /\ \E e \in RemoteErrors("create_repo", <<>>) : Raise(e)
    /\ UNCHANGED <<argVars, user, owners_to_try, cand, result, next_sha, call_no, before, prev>>
    /\ UNCHANGED <<pbVars, pagesVars, genVars>>

\* lines 36-47: the commit sha create_repo_and_push takes from a write's result
ExtractCreate(shape, sha, last) ==
    IF shape.dictlike
      THEN IF shape.commit = "sha" THEN sha ELSE last
      ELSE IF shape.commit = "none" THEN last
           ELSE IF shape.commit = "sha" THEN sha
           ELSE IF shape.commit = "sha_none" THEN NoneSha
           ELSE last

\* lines 127-134: the commit sha update_repo_and_push takes from a write's result
ExtractUpdate(shape, sha, last) ==
    IF shape.commit = "none" THEN last
    ELSE IF shape.commit = "sha" THEN sha
    ELSE IF shape.commit = "sha_none" THEN NoneSha
    ELSE last

\* a variant of FileDone that goes on to the next file after a failed write
FileDone_Continue(ok, errs) ==
    /\ fidx' = fidx + 1
    /\ UNCHANGED <<pc, raised>>

\* how an iteration of either loop ends: the next file after a write that
\* succeeded, the exception of the write (lines 49-51, line 123) otherwise
FileDone(ok, errs) ==
    IF ok THEN /\ fidx' = fidx + 1
               /\ UNCHANGED <<pc, raised>>
          ELSE /\ fidx' = fidx
               /\ \E e \in errs : Raise(e)

\* lines 31-51: one iteration of the loop of create_repo_and_push
C_File ==
    /\ pc = "files" /\ fn = "create" /\ fidx <= Len(files)
    /\ LET p == LStrip(files[fidx].path)
           content == files[fidx].content
           absent == ~remote[repo][p].present
       IN \E ok \in Outcomes(absent, MaxFaults - faults) :
             /\ calls' = Append(calls, CallRec("create_file", p, ok))
             /\ faults' = faults + FaultOf(absent, ok)
             /\ IF ok
                  THEN /\ WriteFile(repo, p, Wire(content))
                       /\ \E shape \in ResShapes :
                             last_commit_sha' =
                                 ExtractCreate(shape, next_sha, last_commit_sha)
                  ELSE UNCHANGED <<remoteVars, last_commit_sha>>
             /\ FileDone(ok, RemoteErrors("create_file", p))
    /\ UNCHANGED <<argVars, user, owners_to_try, cand, repo, result, call_no, before, prev>>
    /\ UNCHANGED <<pbVars, pagesVars, genVars>>

\* lines 53-60: the latest commit of the repository, and the result
C_Finish ==
    /\ pc = "files" /\ fn = "create" /\ fidx > Len(files)
    /\ \E ok \in Outcomes(head[repo] # 0, MaxFaults - faults) :
          /\ calls' = Append(calls, CallRec("get_commits", <<repo>>, ok))
          /\ faults' = faults + FaultOf(head[repo] # 0, ok)
          /\ last_commit_sha' =
                IF ok THEN head[repo]
                ELSE IF last_commit_sha = NoneSha THEN EmptySha ELSE last_commit_sha
    /\ result' = [ok |-> TRUE, repo_url |-> <<repo, "repo_name">>,
                  commit_sha |-> last_commit_sha', owner |-> user]
    /\ pc' = "returned"
    /\ UNCHANGED <<argVars, user, owners_to_try, cand, repo, fidx, raised,
                   remoteVars, call_no, before, prev>>
    /\ UNCHANGED <<pbVars, pagesVars, genVars>>

\* lines 83-92: the candidate owners: the argument, the environment default,
\* the token's login, a duplicate left out
U_Owners ==
    /\ pc = "u_owners"
    /\ \E ok \in Outcomes(TRUE, MaxFaults - faults) :
          LET o1 == IF owner # "" THEN <<owner>> ELSE <<>>
              o2 == IF env_owner # "" /\ env_owner \notin { o1[k] : k \in 1..Len(o1) }
                      THEN Append(o1, env_owner) ELSE o1
              token_user == IF ok THEN token_login ELSE ""
              o3 == IF token_user # "" /\ token_user \notin { o2[k] : k \in 1..Len(o2) }
                      THEN Append(o2, token_user) ELSE o2
          IN /\ owners_to_try' = o3
             /\ calls' = Append(calls, CallRec("get_user_login", <<>>, ok))
             /\ faults' = faults + FaultOf(TRUE, ok)
    /\ cand' = 1
    /\ repo' = ""
    /\ pc' = "u_find"
    /\ UNCHANGED <<argVars, user, fidx, last_commit_sha, raised, result,
                   remoteVars, call_no, before, prev>>
    /\ UNCHANGED <<pbVars, pagesVars, genVars>>

\* a faulty variant of U_Find: the loop goes on after a successful fetch
U_Find_NoBreak ==
    /\ pc = "u_find" /\ cand <= Len(owners_to_try)
    /\ LET c == owners_to_try[cand]
       IN \E isorg \in BOOLEAN, ok1 \in Outcomes(TRUE, MaxFaults - faults) :
            \E ok2 \in Outcomes(ok1 /\ c \in repos, MaxFaults - faults - FaultOf(TRUE, ok1)) :
              LET getop == IF isorg THEN "get_organization" ELSE "get_user"
              IN /\ calls' = calls
                       \o <<CallRec("is_org", <<c>>, isorg), CallRec(getop, <<c>>, ok1)>>
                       \o (IF ok1 THEN <<CallRec("get_repo", <<c>>, ok2)>> ELSE <<>>)
                 /\ faults' = faults + FaultOf(TRUE, ok1) + FaultOf(ok1 /\ c \in repos, ok2)
                 /\ repo' = (IF ok2 THEN c ELSE repo)
                 /\ pc' = pc
                 /\ cand' = cand + 1
    /\ UNCHANGED <<argVars, user, owners_to_try, fidx, last_commit_sha, raised,
                   result, remoteVars, call_no, before, prev>>
    /\ UNCHANGED <<pbVars, pagesVars, genVars>>

\* lines 96-105: one iteration of the search: probe the candidate with is_org,
\* fetch the organization or the user, fetch the repository; break on success,
\* go to the next candidate on any exception
U_Find ==
    /\ pc = "u_find" /\ cand <= Len(owners_to_try)
    /\ LET c == owners_to_try[cand]
       IN \E isorg \in BOOLEAN, ok1 \in Outcomes(TRUE, MaxFaults - faults) :
            \E ok2 \in Outcomes(ok1 /\ c \in repos, MaxFaults - faults - FaultOf(TRUE, ok1)) :
              LET getop == IF isorg THEN "get_organization" ELSE "get_user"
              IN /\ calls' = calls
                       \o <<CallRec("is_org", <<c>>, isorg), CallRec(getop, <<c>>, ok1)>>
                       \o (IF ok1 THEN <<CallRec("get_repo", <<c>>, ok2)>> ELSE <<>>)
                 /\ faults' = faults + FaultOf(TRUE, ok1) + FaultOf(ok1 /\ c \in repos, ok2)
                 /\ IF ok2
                      THEN repo' = c /\ pc' = "u_check" /\ cand' = cand
                      ELSE repo' = repo /\ pc' = pc /\ cand' = cand + 1
    /\ UNCHANGED <<argVars, user, owners_to_try, fidx, last_commit_sha, raised,
                   result, remoteVars, call_no, before, prev>>
    /\ UNCHANGED <<pbVars, pagesVars, genVars>>

\* a faulty variant of U_Check: the error lists the owner argument only
U_Check_ArgOnly ==
    /\ \/ pc = "u_check"
       \/ pc = "u_find" /\ cand > Len(owners_to_try)
    /\ IF repo = ""
         THEN /\ Raise([kind |-> "NotFound", op |-> "", path |-> <<>>,
                        owners |-> IF owner # "" THEN <<owner>> ELSE <<>>])
              /\ UNCHANGED <<fidx, last_commit_sha>>
         ELSE /\ pc' = "files" /\ fidx' = 1 /\ last_commit_sha' = NoneSha
              /\ raised' = raised
    /\ UNCHANGED <<argVars, user, owners_to_try, cand, repo, calls, result,
                   remoteVars, faults, call_no, before, prev>>
    /\ UNCHANGED <<pbVars, pagesVars, genVars>>

\* lines 107-110: no repository under any candidate raises, naming the owners
U_Check ==
    /\ \/ pc = "u_check"
       \/ pc = "u_find" /\ cand > Len(owners_to_try)
    /\ IF repo = ""
         THEN /\ Raise([kind |-> "NotFound", op |-> "", path |-> <<>>,
                        owners |-> owners_to_try])
              /\ UNCHANGED <<fidx, last_commit_sha>>
         ELSE /\ pc' = "files" /\ fidx' = 1 /\ last_commit_sha' = NoneSha
              /\ raised' = raised
    /\ UNCHANGED <<argVars, user, owners_to_try, cand, repo, calls, result,
                   remoteVars, faults, call_no, before, prev>>
    /\ UNCHANGED <<pbVars, pagesVars, genVars>>

\* the file another client leaves behind
AfterOther(cur, w) ==
    IF w = "modify" THEN Stored(OtherData)
    ELSE IF w = "delete" THEN Absent
    ELSE cur

\* a faulty variant of UpsertOutcomes: update_file is given a sha the remote
\* refuses, so no update ever succeeds
UpsertOutcomes_StaleSha(cur, left, conc) ==
    { o \in [get : BOOLEAN, other : {"none"}, upd : {FALSE}, crt : BOOLEAN,
             nf : 0..3] :
        /\ o.get => cur.present
        /\ o.crt => (~o.get /\ ~cur.present)
        /\ o.nf = FaultOf(cur.present, o.get)
                     + FaultOf(~o.get /\ ~cur.present, o.crt)
        /\ o.nf <= left }

\* what the three remote calls of one iteration of lines 118-124 can do on
\* the file cur of the remote: whether get_contents, update_file and
\* create_file succeed, what another client does to the file between the read
\* and the update, and how many of the calls fail for a transient reason.
\* The remote accepts an update whose reference is that of the file it holds,
\* and a create of a path it does not hold.
UpsertOutcomes(cur, left, conc) ==
    { o \in [get : BOOLEAN, other : OtherWrites, upd : BOOLEAN, crt : BOOLEAN,
             nf : 0..3] :
        LET file == AfterOther(cur, o.other)
            updatable == o.get /\ file.present
                            /\ BlobRef(file.data) = BlobRef(cur.data)
            creatable == ~o.upd /\ ~file.present
        IN /\ o.get => cur.present
           /\ (o.other # "none") => (conc /\ o.get)
           /\ o.upd => updatable
           /\ o.crt => creatable
           /\ o.nf = FaultOf(cur.present, o.get) + FaultOf(updatable, o.upd)
                        + FaultOf(creatable, o.crt)
           /\ o.nf <= left }

\* lines 113-134: one iteration of the loop of update_repo_and_push: decode
\* bytes, read the file, update it with the sha read; on any exception of the
\* two, create it; take the commit sha of the result
U_File ==
    /\ pc = "files" /\ fn = "update" /\ fidx <= Len(files)
    /\ LET p == LStrip(files[fidx].path)
           content == Normalize(files[fidx].content)
           cur == remote[repo][p]
       IN \E o \in UpsertOutcomes(cur, MaxFaults - faults, writers) :
             LET wrote == o.upd \/ o.crt
                 others == IF o.other = "none" THEN 0 ELSE 1
                 mine == next_sha + others
             IN /\ calls' = calls
                      \o <<CallRec("get_contents", p, o.get)>>
                      \o (IF o.get
                            THEN <<[CallRec("update_file", p, o.upd)
                                      EXCEPT !.ref = BlobRef(cur.data)]>>
                            ELSE <<>>)
                      \o (IF ~o.upd
                            THEN <<CallRec("create_file", p, o.crt)>> ELSE <<>>)
                /\ faults' = faults + o.nf
                /\ remote' = [remote EXCEPT ![repo][p] =
                                 IF wrote THEN Stored(Wire(content))
                                 ELSE AfterOther(cur, o.other)]
                /\ head' = IF wrote \/ others = 1
                             THEN [head EXCEPT ![repo] =
                                     IF wrote THEN mine ELSE next_sha]
                             ELSE head
                /\ next_sha' = next_sha + others + (IF wrote THEN 1 ELSE 0)
                /\ repos' = repos
                /\ IF wrote
                     THEN \E shape \in ResShapes :
                             last_commit_sha' =
                                 ExtractUpdate(shape, mine, last_commit_sha)
                     ELSE UNCHANGED last_commit_sha
                /\ FileDone(wrote, RemoteErrors("create_file", p))
    /\ UNCHANGED <<argVars, user, owners_to_try, cand, repo, result, call_no, before, prev>>
    /\ UNCHANGED <<pbVars, pagesVars, genVars>>

\* a faulty variant of U_Finish: a failed query of the commit history is
\* raised to the caller
U_Finish_Raises ==
    /\ pc = "files" /\ fn = "update" /\ fidx > Len(files)
    /\ \E ok \in Outcomes(head[repo] # 0, MaxFaults - faults) :
          /\ calls' = Append(calls, CallRec("get_commits", <<repo>>, ok))
          /\ faults' = faults + FaultOf(head[repo] # 0, ok)
          /\ IF ok
               THEN /\ last_commit_sha' = head[repo]
                    /\ result' = [ok |-> TRUE, repo_url |-> <<repo, "repo_name">>,
                                  commit_sha |-> head[repo], owner |-> repo]
                    /\ pc' = "returned"
                    /\ UNCHANGED raised
               ELSE /\ UNCHANGED <<last_commit_sha, result>>
                    /\ \E e \in RemoteErrors("get_commits", <<>>) : Raise(e)
    /\ UNCHANGED <<argVars, user, owners_to_try, cand, repo, fidx,
                   remoteVars, call_no, before, prev>>
    /\ UNCHANGED <<pbVars, pagesVars, genVars>>

\* lines 136-143: the latest commit of the repository, and the result
U_Finish ==
    /\ pc = "files" /\ fn = "update" /\ fidx > Len(files)
    /\ \E ok \in Outcomes(head[repo] # 0, MaxFaults - faults) :
          /\ calls' = Append(calls, CallRec("get_commits", <<repo>>, ok))
          /\ faults' = faults + FaultOf(head[repo] # 0, ok)
          /\ last_commit_sha' =
                IF ok THEN head[repo]
                ELSE IF last_commit_sha = NoneSha THEN EmptySha ELSE last_commit_sha
    /\ result' = [ok |-> TRUE, repo_url |-> <<repo, "repo_name">>,
                  commit_sha |-> last_commit_sha', owner |-> repo]
    /\ pc' = "returned"
    /\ UNCHANGED <<argVars, user, owners_to_try, cand, repo, fidx, raised,
                   remoteVars, call_no, before, prev>>
    /\ UNCHANGED <<pbVars, pagesVars, genVars>>

\* the caller invokes update_repo_and_push again, with the same arguments,
\* once the call before has returned or raised
S_Again ==
    /\ pc \in {"returned", "raised"}
    /\ call_no < MaxCalls
    /\ call_no' = call_no + 1
    /\ fn' = "update"
    /\ pc' = "start" /\ user' = "" /\ owners_to_try' = <<>> /\ cand' = 0 /\ repo' = ""
    /\ fidx' = 0 /\ last_commit_sha' = NoneSha /\ calls' = <<>>
    /\ raised' = NoError /\ result' = NoResult
    /\ before' = remote
    /\ prev' = [fn |-> fn, pc |-> pc, repo |-> repo]
    /\ UNCHANGED <<token, owner, files, env_owner, token_login, writers, remoteVars,
                   faults>>
    /\ UNCHANGED <<pbVars, pagesVars, genVars>>

NextSync ==
    \/ S_Enter \/ C_User \/ C_Repo \/ C_File \/ C_Finish
    \/ U_Owners \/ U_Find \/ U_Check \/ U_File \/ U_Finish
    \/ S_Again

SpecSync == InitSync /\ [][NextSync]_vars

SpecConcurrent == InitConcurrent /\ [][NextSync]_vars

-----------------------------------------------------------------------------
(* deploy_github_pages and wait_for_pages_ready                            *)

\* largest round number tried
MaxRound == 3

\* largest timeout_seconds argument tried (the source's default is 120)
MaxTimeout == 8

\* longest time, in seconds, a poll takes to answer or fail
MaxPollSecs == 1

\* time.sleep(2) of line 220
PollInterval == 2

\* the two requests of lines 193-198, as method, path below the repository
\* and JSON payload
ConfigureRequest ==
    [op |-> "post", url |-> <<"pages">>, json |-> "source: branch main, path /",
     level |-> ""]
RebuildRequest ==
    [op |-> "post", url |-> <<"pages", "builds">>, json |-> "", level |-> ""]

\* a line written to the logger
LogLine(level) == [op |-> "log", url |-> <<>>, json |-> "", level |-> level]

\* what requests.post can do: raise, or give a response with some status
\* and a body that is empty, a JSON object, or not JSON at all
PagesStatuses == {200, 201, 202, 404, 409, 500}
PagesBodies == {"empty", "object", "html"}
PagesOutcomes ==
    { [kind |-> "exc", status |-> 0, body |-> ""] }
    \cup { [kind |-> "resp", status |-> st, body |-> b] :
             st \in PagesStatuses, b \in PagesBodies }

\* one call of deploy_github_pages, or one of wait_for_pages_ready
InitPages ==
    /\ PublishIdle /\ SyncIdle /\ GenIdle
    /\ dp_log = <<>> /\ resp = NoResp /\ dp_ret = "none"
    /\ now = 0 /\ start = 0 /\ wp_result = "none" /\ wp_log = <<>>
    /\ \/ /\ round_num \in 1..MaxRound /\ dp_pc = "start"
          /\ timeout_seconds = 0 /\ wp_pc = "idle"
       \/ /\ round_num = 0 /\ dp_pc = "idle"
          /\ timeout_seconds \in 0..MaxTimeout /\ wp_pc = "start"

\* lines 192-198: the POST of the round; an exception of requests.post is
\* not caught
DP_Post ==
    /\ dp_pc = "start"
    /\ dp_log' = Append(dp_log, IF round_num = 1 THEN ConfigureRequest
                                                  ELSE RebuildRequest)
    /\ \E o \in PagesOutcomes :
          IF o.kind = "exc"
            THEN dp_pc' = "raised" /\ resp' = resp
            ELSE dp_pc' = "respond" /\ resp' = o
    /\ UNCHANGED <<round_num, dp_ret, timeout_seconds, now, start, wp_pc,
                   wp_result, wp_log>>
    /\ UNCHANGED <<pbVars, syncVars, genVars>>

\* lines 200-204: the log line for the status, then resp.json() if the body
\* is not empty, which raises when the body is not JSON, else {}
DP_Return ==
    /\ dp_pc = "respond"
    /\ dp_log' = Append(dp_log, LogLine(IF resp.status \in {201, 202, 200}
                                          THEN "info" ELSE "warning"))
    /\ IF resp.body = "empty"
         THEN dp_pc' = "returned" /\ dp_ret' = "{}"
         ELSE IF resp.body = "object"
                THEN dp_pc' = "returned" /\ dp_ret' = "json object"
                ELSE dp_pc' = "raised" /\ dp_ret' = dp_ret
    /\ UNCHANGED <<round_num, resp, timeout_seconds, now, start, wp_pc,
                   wp_result, wp_log>>
    /\ UNCHANGED <<pbVars, syncVars, genVars>>

\* what requests.get can do in a poll: a response with some status, or an
\* exception (network error, timeout of the request)
PollOutcomes ==
    { [kind |-> "resp", status |-> st] : st \in {200, 404, 503} }
    \cup { [kind |-> "exc", status |-> 0] }

PollEvent(o, t) == [op |-> "get", kind |-> o.kind, status |-> o.status, at |-> t]
WaitEvent(t) == [op |-> "sleep", kind |-> "", status |-> 0, at |-> t]

\* line 212: start = time.time()
WP_Enter ==
    /\ wp_pc = "start"
    /\ start' = now
    /\ wp_pc' = "test"
    /\ UNCHANGED <<round_num, dp_pc, dp_log, resp, dp_ret, timeout_seconds, now,
                   wp_result, wp_log>>
    /\ UNCHANGED <<pbVars, syncVars, genVars>>

\* line 213 and line 221: the loop goes on while the timeout has not elapsed
WP_Test ==
    /\ wp_pc = "test"
    /\ IF now - start < timeout_seconds
         THEN wp_pc' = "poll" /\ wp_result' = wp_result
         ELSE wp_pc' = "done" /\ wp_result' = "False"
    /\ UNCHANGED <<round_num, dp_pc, dp_log, resp, dp_ret, timeout_seconds, now,
                   start, wp_log>>
    /\ UNCHANGED <<pbVars, syncVars, genVars>>

\* a faulty variant of HandlePoll: the exception of a poll is not caught
HandlePoll_Escapes(o) ==
    IF o.kind = "resp" /\ o.status = 200
      THEN wp_pc' = "done" /\ wp_result' = "True"
      ELSE IF o.kind = "exc"
             THEN wp_pc' = "raised" /\ wp_result' = wp_result
             ELSE wp_pc' = "sleep" /\ wp_result' = wp_result

\* lines 214-219 for one outcome of the poll: return True on 200; another
\* status falls through and an exception is passed over, both reach the sleep
HandlePoll(o) ==
    IF o.kind = "resp" /\ o.status = 200
      THEN wp_pc' = "done" /\ wp_result' = "True"
      ELSE wp_pc' = "sleep" /\ wp_result' = wp_result

\* lines 214-219: one poll, which takes some time
WP_Poll ==
    /\ wp_pc = "poll"
    /\ \E o \in PollOutcomes, d \in 0..MaxPollSecs :
          /\ wp_log' = Append(wp_log, PollEvent(o, now))
          /\ now' = now + d
          /\ HandlePoll(o)
    /\ UNCHANGED <<round_num, dp_pc, dp_log, resp, dp_ret, timeout_seconds, start>>
    /\ UNCHANGED <<pbVars, syncVars, genVars>>

\* a faulty variant of WP_Sleep: no sleep between two polls
WP_Sleep_Skipped ==
    /\ wp_pc = "sleep"
    /\ wp_pc' = "test"
    /\ UNCHANGED <<round_num, dp_pc, dp_log, resp, dp_ret, timeout_seconds, now,
                   start, wp_result, wp_log>>
    /\ UNCHANGED <<pbVars, syncVars, genVars>>

\* line 220: time.sleep(2)
WP_Sleep ==
    /\ wp_pc = "sleep"
    /\ wp_log' = Append(wp_log, WaitEvent(now))
    /\ now' = now + PollInterval
    /\ wp_pc' = "test"
    /\ UNCHANGED <<round_num, dp_pc, dp_log, resp, dp_ret, timeout_seconds, start,
                   wp_result>>
    /\ UNCHANGED <<pbVars, syncVars, genVars>>

NextPages == DP_Post \/ DP_Return \/ WP_Enter \/ WP_Test \/ WP_Poll \/ WP_Sleep

SpecPages == InitPages /\ [][NextPages]_vars

-----------------------------------------------------------------------------
(* generate_project_files (src/generator.py) and get_repo_files            *)

\* the files of the repository that get_repo_files reads
SnapshotNames == {"index.html", "README.md"}

\* the keys of a mapping
Keys(d) == { k \in GenKeys : d[k] # NotIn }

\* dict.update: the entries of d2 added to d1, or put in place of its own
Update(d1, d2) == [k \in GenKeys |-> IF d2[k] # NotIn THEN d2[k] ELSE d1[k]]

\* lines 162-171 of get_repo_files: both names are keys of the result, with
\* the content of the file, or "" when reading it failed
GetRepoFiles(readable) ==
    [k \in GenKeys |->
        IF k \in SnapshotNames
          THEN (IF k \in readable THEN "content of round before" ELSE "")
          ELSE NotIn]

\* what the generation step can do: the request fails, the message cannot
\* be evaluated, or it evaluates to a mapping with some of the names
LlmOutcomes ==
    { [kind |-> "exc", names |-> {}], [kind |-> "unparsable", names |-> {}] }
    \cup { [kind |-> "dict", names |-> K] : K \in SUBSET GenKeys }

\* one call of generate_project_files, in any round, with or without an API
\* key, on a repository that holds any of the two files of the snapshot
InitGenerate ==
    /\ PublishIdle /\ SyncIdle
    /\ dp_pc = "idle" /\ dp_log = <<>> /\ resp = NoResp /\ dp_ret = "none"
    /\ timeout_seconds = 0 /\ now = 0 /\ start = 0 /\ wp_pc = "idle"
    /\ wp_result = "none" /\ wp_log = <<>>
    /\ round_num \in 1..MaxRound
    /\ USE_OPENAI \in BOOLEAN
    /\ snapshot \in SUBSET SnapshotNames
    /\ gen_pc = "start"
    /\ gen_files = EmptyDict

\* lines 45-48: files = {}, and the test of USE_OPENAI
G_Enter ==
    /\ gen_pc = "start"
    /\ gen_files' = EmptyDict
    /\ gen_pc' = IF USE_OPENAI THEN "prompt" ELSE "fallback"
    /\ UNCHANGED <<USE_OPENAI, snapshot>>
    /\ UNCHANGED <<pbVars, syncVars, pagesVars>>

\* lines 49-131: the prompt; in a later round files becomes the snapshot
\* get_repo_files returns, and an exception of get_repo_files (the repository
\* cannot be fetched) is caught at line 146
G_Prompt ==
    /\ gen_pc = "prompt"
    /\ IF round_num = 1
         THEN gen_pc' = "llm" /\ gen_files' = gen_files
         ELSE \E fetched \in BOOLEAN, readable \in SUBSET snapshot :
                 IF fetched
                   THEN gen_pc' = "llm" /\ gen_files' = GetRepoFiles(readable)
                   ELSE gen_pc' = "fallback" /\ gen_files' = gen_files
    /\ UNCHANGED <<USE_OPENAI, snapshot>>
    /\ UNCHANGED <<pbVars, syncVars, pagesVars>>

\* lines 135-147: the request, files.update(eval(message)); an exception of
\* either is caught and printed
G_Llm ==
    /\ gen_pc = "llm"
    /\ \E o \in LlmOutcomes :
          gen_files' =
              IF o.kind = "dict"
                THEN Update(gen_files,
                            [k \in GenKeys |->
                                IF k \in o.names THEN "generated" ELSE NotIn])
                ELSE gen_files
    /\ gen_pc' = "fallback"
    /\ UNCHANGED <<USE_OPENAI, snapshot>>
    /\ UNCHANGED <<pbVars, syncVars, pagesVars>>

\* the three files of the template of lines 151-153
Template ==
    [k \in GenKeys |->
        IF k \in {"index.html", "README.md", "LICENSE"} THEN "template" ELSE NotIn]

\* lines 149-155: the template when files is empty, and the return
G_Return ==
    /\ gen_pc = "fallback"
    /\ gen_files' = IF Keys(gen_files) = {} THEN Update(gen_files, Template)
                                            ELSE gen_files
    /\ gen_pc' = "returned"
    /\ UNCHANGED <<USE_OPENAI, snapshot>>
    /\ UNCHANGED <<pbVars, syncVars, pagesVars>>

NextGenerate == G_Enter \/ G_Prompt \/ G_Llm \/ G_Return

SpecGenerate == InitGenerate /\ [][NextGenerate]_vars

-----------------------------------------------------------------------------
(* Reading the log of a post_with_backoff call.                            *)

PostIdx == { i \in 1..Len(pb_log) : pb_log[i].op = "post" }
SleepIdx == { i \in 1..Len(pb_log) : pb_log[i].op = "sleep" }
NumPosts == Cardinality(PostIdx)
NumSleeps == Cardinality(SleepIdx)

\* the index in the log of the k-th POST
KthPost(k) == CHOOSE i \in PostIdx : Cardinality({ j \in PostIdx : j <= i }) = k

RECURSIVE Pow2(_)
Pow2(n) == IF n <= 0 THEN 1 ELSE 2 * Pow2(n - 1)

RECURSIVE SumSecs(_, _, _)
\* total seconds slept by the log entries lo..hi
SumSecs(log, lo, hi) ==
    IF lo > hi THEN 0 ELSE log[lo].secs + SumSecs(log, lo + 1, hi)

PBDone == pb_pc = "done"
AllPostsFailed == \A i \in PostIdx : ~(pb_log[i].kind = "resp" /\ pb_log[i].status = 200)

-----------------------------------------------------------------------------
(* Claims about post_with_backoff, checked under SpecPublish.              *)

\* the log entries strictly between the k-th POST and the next one
Between(k) == { i \in 1..Len(pb_log) : KthPost(k) < i /\ i < KthPost(k + 1) }

\* C1: with a non-sentinel URL and max_attempts = n >= 1, between attempt k
\* and attempt k+1 there is exactly one sleep, of 2^(k-1) seconds, and when
\* every attempt has failed the call has made exactly n POSTs and returns False.
C1_BackoffSchedule ==
    (url # SentinelUrl /\ max_attempts >= 1) =>
        /\ \A k \in 1..(NumPosts - 1) :
              /\ Cardinality(Between(k)) = 1
              /\ \A i \in Between(k) :
                    pb_log[i].op = "sleep" /\ pb_log[i].secs = Pow2(k - 1)
        /\ (PBDone /\ AllPostsFailed) =>
              (NumPosts = max_attempts /\ pb_result = "False")

\* the example of the specification: four attempts, all failed, delays 1, 2, 4
C1_Witness ==
    /\ PBDone /\ url # SentinelUrl /\ max_attempts = 4 /\ AllPostsFailed
    /\ NumPosts = 4
    /\ \E i \in PostIdx : pb_log[i].kind = "exc"
    /\ \E i \in PostIdx : pb_log[i].kind = "resp" /\ pb_log[i].status = 500
    /\ SumSecs(pb_log, KthPost(1), KthPost(4)) = 7

\* C2: the call returns True exactly when some attempt received status 200 or
\* the URL is the sentinel; the attempt that received 200 is the last entry of
\* the log (no sleep and no POST follows it) and ends the call.
C2_TrueIffStatus200 ==
    /\ PBDone =>
          ((pb_result = "True") <=>
              (url = SentinelUrl
                \/ \E i \in PostIdx : pb_log[i].kind = "resp" /\ pb_log[i].status = 200))
    /\ \A i \in PostIdx :
          (pb_log[i].kind = "resp" /\ pb_log[i].status = 200) =>
              (i = Len(pb_log) /\ PBDone /\ pb_result = "True")

\* a 200 on a retry, after failed attempts and their sleeps
C2_Witness ==
    /\ PBDone /\ pb_result = "True" /\ NumPosts >= 3
    /\ \E i \in PostIdx : pb_log[i].kind = "resp" /\ pb_log[i].status = 201

\* C3: with the URL "TESTING" the call returns True with no POST and no sleep,
\* whatever the headers and max_attempts.
C3_SentinelShortCircuit ==
    (url = SentinelUrl) =>
        /\ pb_log = <<>>
        /\ pb_pc \in {"start", "done"}
        /\ PBDone => pb_result = "True"

C3_Witness ==
    PBDone /\ url = SentinelUrl /\ max_attempts = 0 /\ headers # DefaultHeaders

\* C4: no exception escapes: the call never ends by raising, it ends with a
\* boolean, and a POST that raised counts as one attempt and is followed by the
\* sleep of the normal schedule, after which the loop goes on.
C4_NoExceptionEscapes ==
    /\ pb_pc \in {"start", "loop", "post", "sleep", "done"}
    /\ PBDone => pb_result \in {"True", "False"}
    /\ NumPosts = (IF pb_pc = "post" THEN attempt - 1 ELSE attempt)
    /\ \A k \in 1..NumPosts :
          pb_log[KthPost(k)].kind = "exc" =>
              IF KthPost(k) = Len(pb_log)
                THEN pb_pc = "sleep" /\ delay = Pow2(k - 1)
                ELSE /\ pb_log[KthPost(k) + 1].op = "sleep"
                     /\ pb_log[KthPost(k) + 1].secs = Pow2(k - 1)
                     /\ (KthPost(k) + 1 = Len(pb_log)) => pb_pc \in {"loop", "post", "done"}

\* a network error on the first attempt, then a retry that succeeds
C4_Witness ==
    /\ PBDone /\ pb_result = "True" /\ NumPosts = 2
    /\ pb_log[1].kind = "exc"

-----------------------------------------------------------------------------
(* Reading the remote calls of a synchronization call.                     *)

FileOps == {"get_contents", "update_file", "create_file"}
WriteOps == {"update_file", "create_file"}

CallIdx(ops) == { k \in 1..Len(calls) : calls[k].op \in ops }

IsProbe(r) == r.op = "is_org"

\* the owners probed so far, in the order of their probes
Probed ==
    LET probes == SelectSeq(calls, IsProbe)
    IN [k \in 1..Len(probes) |-> probes[k].arg[1]]

\* the owners whose repository fetch has succeeded
Fetched == { calls[k].arg[1] : k \in { j \in CallIdx({"get_repo"}) : calls[j].ok } }

\* the three sources of a candidate, in the order the specification gives them
CandidateSources ==
    << owner, env_owner,
       IF \E k \in CallIdx({"get_user_login"}) : calls[k].ok THEN token_login ELSE "" >>

KeepSource(k) ==
    /\ CandidateSources[k] # ""
    /\ \A j \in 1..(k - 1) : CandidateSources[j] # CandidateSources[k]

ExpectedCandidates ==
    (IF KeepSource(1) THEN <<CandidateSources[1]>> ELSE <<>>)
        \o (IF KeepSource(2) THEN <<CandidateSources[2]>> ELSE <<>>)
        \o (IF KeepSource(3) THEN <<CandidateSources[3]>> ELSE <<>>)

\* a content as the bytes the caller supplied, and as the bytes of its
\* normalization to UTF-8 text
SuppliedBytes(c) == IF c.kind = "str" THEN Utf8Encode(c.data) ELSE c.data
NormalizedBytes(c) ==
    Utf8Encode(IF c.kind = "str" THEN c.data ELSE Utf8DecodeIgnore(c.data))

Returned == pc = "returned"
WriteFailed == pc = "raised" /\ raised.kind = "Remote" /\ raised.op \in WriteOps

-----------------------------------------------------------------------------
(* Claims about the Repository Synchronizer, checked under SpecSync.       *)

\* C5 as stated: after a synchronization call has returned, the remote content
\* of every path of the FileSet equals the content supplied for it.
C5_RoundTripExact ==
    Returned =>
        \A k \in 1..Len(files) :
            remote[repo][files[k].path] = Stored(SuppliedBytes(files[k].content))

\* C5, amended: after create_repo_and_push has returned the remote content of
\* every path equals the content supplied; after update_repo_and_push has
\* returned it equals the supplied content normalized to UTF-8 text (bytes
\* decoded, undecodable bytes dropped), which is the supplied content whenever
\* that is text or validly encoded bytes.
C5_RoundTripNormalized ==
    Returned =>
        \A k \in 1..Len(files) :
            LET c == files[k].content
                got == remote[repo][files[k].path]
            IN /\ got = Stored(IF fn = "create" THEN SuppliedBytes(c)
                                                ELSE NormalizedBytes(c))
               /\ (NormalizedBytes(c) = SuppliedBytes(c)) => got = Stored(SuppliedBytes(c))

\* an update of three files, one already on the remote and one not, one of
\* them given as bytes that do not decode
C5_Witness ==
    /\ Returned /\ fn = "update" /\ Len(files) = 3
    /\ \E k \in 1..3 : before[repo][files[k].path].present
    /\ \E k \in 1..3 : ~before[repo][files[k].path].present
    /\ \E k \in 1..3 : NormalizedBytes(files[k].content) # SuppliedBytes(files[k].content)
    /\ \E k \in 1..3 : files[k].content.kind = "str"

\* C6: when update_repo_and_push is called again with the same FileSet after
\* it has returned, and nobody else writes, the second call changes no remote
\* content of the repository the first call used, and it succeeds (it raises
\* only if a remote call fails for a transient reason).
C6_SecondUpdateChangesNothing ==
    (call_no = 2 /\ prev.fn = "update" /\ prev.pc = "returned") =>
        /\ (repo \in {"", prev.repo}) => remote = before
        /\ (faults = 0) => (pc # "raised" /\ repo \in {"", prev.repo})

C6_Witness ==
    /\ call_no = 2 /\ prev.fn = "update" /\ prev.pc = "returned"
    /\ Returned /\ faults = 0 /\ Len(files) = 3
    /\ \E k \in 1..3 : NormalizedBytes(files[k].content) # SuppliedBytes(files[k].content)
    /\ Cardinality(CallIdx({"update_file"})) = 3

\* C7 as stated: when the write of the k-th file fails, no read or write of a
\* later file is attempted, the call raises, and the error raised identifies
\* the path of the k-th file.
C7_FailFastNamesPath ==
    WriteFailed =>
        /\ \A k \in CallIdx(FileOps) :
              \E j \in 1..fidx : calls[k].arg = files[j].path
        /\ raised.path = files[fidx].path

\* the part of C7 that the code keeps: the failed write is the last remote
\* call of the call, and it is a write of the k-th file
FailFastStops ==
    WriteFailed =>
        /\ \A k \in CallIdx(FileOps) :
              \E j \in 1..fidx : calls[k].arg = files[j].path
        /\ calls[Len(calls)].op \in WriteOps
        /\ ~calls[Len(calls)].ok
        /\ calls[Len(calls)].arg = files[fidx].path

\* C8: update_repo_and_push tries the owner argument, then the environment
\* default, then the token's login, a duplicate left out; the owners probed
\* are a prefix of that list, the repository selected is the one of the first
\* candidate whose fetch succeeded, which is the last one probed, and when no
\* remote call fails for a transient reason it is the first candidate that has
\* the repository.
C8_OwnerResolutionOrder ==
    (fn = "update" /\ CallIdx({"get_user_login"}) # {}) =>
        LET probed == Probed
            fetched == Fetched
        IN /\ owners_to_try = ExpectedCandidates
           /\ Len(probed) <= Len(owners_to_try)
           /\ probed = SubSeq(owners_to_try, 1, Len(probed))
           /\ Cardinality(fetched) <= 1
           /\ (repo # "") =>
                 /\ fetched = {repo}
                 /\ Len(probed) >= 1
                 /\ repo = owners_to_try[Len(probed)]
                 /\ repo \in repos
           /\ (repo = "") => fetched = {}
           /\ (repo # "" /\ faults = 0) =>
                 \A j \in 1..(Len(probed) - 1) : owners_to_try[j] \notin repos
           /\ (pc \in {"files", "returned"}) => repo # ""

\* the example of the specification: candidates A, B, C, only B has the
\* repository: B is selected and C is never probed
C8_Witness ==
    /\ fn = "update" /\ Returned
    /\ owners_to_try = <<"A", "B", "C">> /\ repos = {"B"}
    /\ repo = "B" /\ Probed = <<"A", "B">>

\* C9: when update_repo_and_push finds the repository under no candidate it
\* raises a not-found error that lists every owner tried, every candidate has
\* been tried, and it has issued no file read, no file write, no repository
\* creation and changed nothing on the remote; it gets to the files only with
\* a repository found.
C9_NotFoundListsOwners ==
    /\ (pc = "raised" /\ raised.kind = "NotFound") =>
          /\ fn = "update"
          /\ raised.owners = ExpectedCandidates
          /\ raised.owners = Probed
          /\ Fetched = {}
          /\ CallIdx(FileOps \cup {"create_repo", "get_commits"}) = {}
          /\ remote = before
    /\ (fn = "update" /\ (pc \in {"files", "returned"} \/ WriteFailed)) => Fetched # {}
    /\ (fn = "update" /\ CallIdx(FileOps \cup {"create_repo"}) # {}) => Fetched # {}

C9_Witness ==
    /\ pc = "raised" /\ raised.kind = "NotFound"
    /\ raised.owners = <<"A", "B", "C">>
    /\ repos = {} /\ faults = 0

\* the candidate owners of the first round, as the specification lists them
FirstRoundCandidates == {owner, env_owner, token_login} \ {""}

\* the owners that had the repository when the current call started
ReposAtStart ==
    IF \E k \in CallIdx({"create_repo"}) : calls[k].ok THEN repos \ {user} ELSE repos

\* C10 as stated: in the first round the creation of a repository is
\* attempted only if no repository of that name exists under any candidate
\* owner; when one exists it is used.
C10_CreateOnlyIfAbsent ==
    (fn = "create" /\ call_no = 1 /\ CallIdx({"create_repo"}) # {}) =>
        FirstRoundCandidates \cap ReposAtStart = {}

-----------------------------------------------------------------------------
(* C11: the per-file upsert of update_repo_and_push.                       *)

\* the write calls the current call has issued on path p
WritesOn(p) ==
    { j \in DOMAIN calls : calls[j].op \in WriteOps /\ calls[j].arg = p }

\* C11: in update_repo_and_push every path that has been read has had exactly
\* one write issued: an update carrying the reference of the file just read
\* when the remote held the file, a create when it did not; and an update the
\* remote rejected is the last remote call of a sync that has raised, so no
\* other write on that path follows it.
C11_UpsertOncePerPath ==
    fn = "update" =>
        \A k \in DOMAIN calls :
            calls[k].op = "get_contents" =>
                LET p == calls[k].arg
                    held == before[repo][p]
                IN /\ Cardinality(WritesOn(p)) = 1
                   /\ \A j \in WritesOn(p) :
                         /\ held.present =>
                               (calls[j].op = "update_file"
                                  /\ calls[j].ref = BlobRef(held.data))
                         /\ ~held.present => calls[j].op = "create_file"
                         /\ (calls[j].op = "update_file" /\ ~calls[j].ok) =>
                               (j = Len(calls) /\ pc = "raised")

\* a rejected update after which the sync nevertheless returned a result
C11_RejectedUpdateReturned ==
    /\ Returned
    /\ \E j \in DOMAIN calls : calls[j].op = "update_file" /\ ~calls[j].ok

-----------------------------------------------------------------------------
(* C12, C13: the commit sha of the result.                                 *)

\* the step that ends the loop over the files and returns the result
Finishing == pc = "files" /\ pc' = "returned"

\* C12: when the loop over the files ends with the sha a write exposed, the
\* result carries that sha and the commit history is not queried: the step
\* that returns issues no remote call.
C12_ShaOfLastWrite ==
    [][ (Finishing /\ last_commit_sha # NoneSha) =>
           (result'.commit_sha = last_commit_sha /\ calls' = calls) ]_vars

\* the query of the commit history of the current call failed
HistoryFailed ==
    \E k \in DOMAIN calls : calls[k].op = "get_commits" /\ ~calls[k].ok

\* C13: once the loop over the files has ended, the call returns a result
\* whatever the query of the commit history does; when the query fails, the
\* result carries the sha the loop ended with, and the empty string when no
\* write exposed a sha.
C13_HistoryFailureStillReturns ==
    [][ (pc = "files" /\ fidx > Len(files)) =>
           /\ pc' = "returned" /\ result'.ok /\ raised' = NoError
           /\ HistoryFailed' =>
                 result'.commit_sha =
                     IF last_commit_sha = NoneSha THEN EmptySha
                     ELSE last_commit_sha ]_vars

\* every file of a FileSet written, then a failed query, and the empty sha
C13_Witness ==
    /\ Returned /\ HistoryFailed
    /\ Len(files) >= 2
    /\ \A k \in 1..Len(files) :
          \E j \in WritesOn(LStrip(files[k].path)) : calls[j].ok
    /\ result.commit_sha = EmptySha

-----------------------------------------------------------------------------
(* C14: the token is checked first.                                        *)

\* C14: a call entered with a missing token (None or empty) has raised the
\* precondition error, has issued no remote call, has changed nothing on the
\* remote and stays so: the function does not retry; and the precondition
\* error is raised for a missing token only.
C14_MissingTokenRaisesFirst ==
    /\ (pc \notin {"idle", "start"} /\ token \in {"None", ""}) =>
          /\ pc = "raised" /\ raised.kind = "Precondition"
          /\ calls = <<>> /\ remote = before /\ faults = 0
          /\ result = NoResult /\ repo = "" /\ user = ""
    /\ raised.kind = "Precondition" => token \in {"None", ""}

\* update_repo_and_push called with None for a token has raised
C14_Witness ==
    /\ token = "None" /\ fn = "update" /\ call_no = 1
    /\ pc = "raised" /\ raised.kind = "Precondition"
    /\ files # <<>>

-----------------------------------------------------------------------------
(* C18, C19: the order of the writes, and what an aborted call leaves.     *)

\* the position in the FileSet of the path a file operation was issued on
PathIdx(p) == CHOOSE k \in 1..Len(files) : LStrip(files[k].path) = p

\* the positions of the paths a write has been attempted on
Attempted == { PathIdx(calls[j].arg) : j \in CallIdx(WriteOps) }

\* C18: at every point of a call the paths a write has been attempted on are
\* the first n of the FileSet for some n, the file operations are issued in
\* the order of the FileSet, and an operation on a path other than the first
\* comes after a write of the path before it that succeeded.
C18_OneAtATimeInOrder ==
    /\ \E n \in 0..Len(files) : Attempted = 1..n
    /\ \A j \in CallIdx(FileOps) :
          LET i == PathIdx(calls[j].arg)
          IN /\ \A h \in CallIdx(FileOps) :
                   h < j => PathIdx(calls[h].arg) <= i
             /\ i > 1 =>
                   \E h \in CallIdx(WriteOps) :
                       h < j /\ calls[h].ok /\ PathIdx(calls[h].arg) = i - 1

\* three files written one after the other, by an update and by a create
C18_Witness ==
    /\ Returned /\ Len(files) = 3 /\ fn = "update"
    /\ Attempted = 1..3
    /\ \E j \in CallIdx({"update_file"}) : calls[j].ok
    /\ \E j \in CallIdx({"create_file"}) : calls[j].ok

\* C19 as stated: when a call has aborted on the write of the k-th file,
\* every path before the k-th holds the content supplied for it and every
\* path after the k-th holds the content it had before the call.
C19_PartialExact ==
    WriteFailed =>
        /\ \A j \in 1..(fidx - 1) :
              remote[repo][LStrip(files[j].path)]
                  = Stored(SuppliedBytes(files[j].content))
        /\ \A j \in (fidx + 1)..Len(files) :
              remote[repo][LStrip(files[j].path)]
                  = before[repo][LStrip(files[j].path)]

\* C19, amended: when a call has aborted on the write of the k-th file, every
\* path before the k-th holds the content supplied for it (after
\* update_repo_and_push: that content normalized to UTF-8 text, undecodable
\* bytes dropped), every path after the k-th holds the content it had before
\* the call, and nothing is rolled back: the head commit is the write of the
\* file before the k-th.
C19_PartialNormalized ==
    WriteFailed =>
        /\ \A j \in 1..(fidx - 1) :
              LET c == files[j].content
              IN remote[repo][LStrip(files[j].path)]
                    = Stored(IF fn = "create" THEN SuppliedBytes(c)
                                              ELSE NormalizedBytes(c))
        /\ \A j \in (fidx + 1)..Len(files) :
              remote[repo][LStrip(files[j].path)]
                  = before[repo][LStrip(files[j].path)]
        /\ fidx > 1 => head[repo] = next_sha - 1

\* an update of three files that aborted on the second: the first is
\* written, the third, which the remote held, is as it was
C19_Witness ==
    /\ WriteFailed /\ fn = "update" /\ Len(files) = 3 /\ fidx = 2
    /\ remote[repo][LStrip(files[1].path)] # before[repo][LStrip(files[1].path)]
    /\ before[repo][LStrip(files[3].path)].present
    /\ remote[repo][LStrip(files[3].path)] = before[repo][LStrip(files[3].path)]

-----------------------------------------------------------------------------
(* C20: the sleeps of post_with_backoff, checked under SpecPublish.        *)

\* the POSTs of the log that failed
FailedPosts ==
    { i \in PostIdx : ~(pb_log[i].kind = "resp" /\ pb_log[i].status = 200) }

\* C20: every failed attempt is followed by one sleep, the last one too: when
\* the call has ended it has slept as many times as attempts have failed;
\* when all n = max_attempts attempts have failed, the last entry of the log
\* is a sleep of 2^(n-1) seconds, the sleeps add up to 2^n - 1 seconds and
\* the result is False; with max_attempts <= 0 the call issues no POST and
\* no sleep, and returns False.
C20_SleepAfterEveryFailure ==
    (url # SentinelUrl) =>
        /\ \A i \in FailedPosts :
              i < Len(pb_log) => pb_log[i + 1].op = "sleep"
        /\ PBDone => NumSleeps = Cardinality(FailedPosts)
        /\ (PBDone /\ max_attempts >= 1 /\ AllPostsFailed) =>
              /\ pb_result = "False"
              /\ pb_log[Len(pb_log)].op = "sleep"
              /\ pb_log[Len(pb_log)].secs = Pow2(max_attempts - 1)
              /\ SumSecs(pb_log, 1, Len(pb_log)) = Pow2(max_attempts) - 1
        /\ max_attempts <= 0 =>
              /\ pb_log = <<>>
              /\ PBDone => pb_result = "False"

\* three attempts, all failed: sleeps of 1, 2 and 4 seconds, then False
C20_Witness ==
    /\ PBDone /\ url # SentinelUrl /\ max_attempts = 3 /\ pb_result = "False"
    /\ NumPosts = 3 /\ NumSleeps = 3
    /\ pb_log[Len(pb_log)] = SleepEvent(4)
    /\ SumSecs(pb_log, 1, Len(pb_log)) = 7

-----------------------------------------------------------------------------
(* C15, C16: the Pages Activator, checked under SpecPages.                 *)

\* C15: deploy_github_pages never raises: it issues a single POST, the
\* configure-pages request in round 1 and the trigger-rebuild request in a
\* later round, and whatever the outcome of that POST it returns a mapping.
C15_DeployNeverRaises ==
    /\ dp_pc # "raised"
    /\ dp_pc = "returned" => dp_ret \in {"{}", "json object"}
    /\ Cardinality({ i \in DOMAIN dp_log : dp_log[i].op = "post" }) <= 1
    /\ \A i \in DOMAIN dp_log :
          dp_log[i].op = "post" =>
              dp_log[i] = IF round_num = 1 THEN ConfigureRequest
                                           ELSE RebuildRequest

\* the polls of the log, and those that did not observe status 200
PollIdx == { i \in DOMAIN wp_log : wp_log[i].op = "get" }
FailedPolls ==
    { i \in PollIdx : ~(wp_log[i].kind = "resp" /\ wp_log[i].status = 200) }
WaitIdx == { i \in DOMAIN wp_log : wp_log[i].op = "sleep" }

\* C16: wait_for_pages_ready never raises; a poll that did not observe 200 is
\* followed by one sleep of 2 seconds and a sleep follows only such a poll;
\* the call returns True exactly at the first poll that observes 200, after
\* as many sleeps as polls failed before it, so not before 2 seconds times
\* that number have passed; and it returns False only once the timeout has
\* elapsed, after no successful poll and a sleep after every poll.
C16_PollEveryTwoSeconds ==
    /\ wp_pc \in {"idle", "start", "test", "poll", "sleep", "done"}
    /\ \A i \in FailedPolls :
          i < Len(wp_log) => wp_log[i + 1].op = "sleep"
    /\ \A i \in WaitIdx :
          /\ i - 1 \in FailedPolls
          /\ i < Len(wp_log) => wp_log[i + 1].at >= wp_log[i].at + 2
          /\ now >= wp_log[i].at + (IF wp_pc = "sleep" /\ i = Len(wp_log) THEN 0 ELSE 2)
    /\ \A i \in PollIdx \ FailedPolls :
          i = Len(wp_log) /\ wp_pc = "done" /\ wp_result = "True"
    /\ (wp_pc = "done") = (wp_result # "none")
    /\ wp_result = "True" =>
          /\ wp_log # <<>> /\ Len(wp_log) \in PollIdx \ FailedPolls
          /\ Cardinality(WaitIdx) = Cardinality(FailedPolls)
          /\ now - start >= 2 * Cardinality(FailedPolls)
    /\ wp_result = "False" =>
          /\ now - start >= timeout_seconds
          /\ PollIdx = FailedPolls
          /\ Cardinality(WaitIdx) = Cardinality(FailedPolls)

\* the example of the specification: three failed polls, one of them a
\* network error, then a 200: True after three sleeps and at least 6 seconds
C16_Witness ==
    /\ wp_pc = "done" /\ wp_result = "True"
    /\ Cardinality(FailedPolls) = 3 /\ Cardinality(WaitIdx) = 3
    /\ \E i \in FailedPolls : wp_log[i].kind = "exc"
    /\ \E i \in FailedPolls : wp_log[i].status = 404
    /\ now - start >= 6

-----------------------------------------------------------------------------
(* C17: the Content Producer, checked under SpecGenerate.                  *)

\* C17: the mapping generate_project_files returns has at least the keys
\* index.html, README.md and LICENSE, in every round and whatever the
\* generation step did.
C17_RequiredFilesReturned ==
    gen_pc = "returned" =>
        {"index.html", "README.md", "LICENSE"} \subseteq Keys(gen_files)

====
